---- MODULE Spec2Model ----
(***************************************************************************)
(* Model of src/src/main.rs (ConwayBevy): a two-team Game of Life on a     *)
(* bevy_ecs_tilemap tile map, driven by three Bevy systems that run every  *)
(* frame in no declared order: update_map, mouse_input and keyboard_input. *)
(* One action is one run of one system; the runs interleave freely.        *)
(*                                                                         *)
(* Two library behaviours enter the model.  Query<.., Changed<Cell>> yields *)
(* the tiles whose Cell was added or mutably accessed since the previous   *)
(* run of update_map, early returns included, and never the writes of      *)
(* update_map itself.  Neighbors::get_square_neighboring_positions(pos,    *)
(* size, true) yields the positions next to pos, diagonals included, that  *)
(* lie on the map; a position off the map is None and is not iterated.     *)
(* Inside update_map, x and y stand for the position of the tile the loop  *)
(* is at.                                                                  *)
(*                                                                         *)
(* Time is counted in milliseconds.  Cell values are the usize team ids of *)
(* the source: 0 empty, 1 neither, 2 team 1, 3 team 2.                     *)
(***************************************************************************)
EXTENDS Integers, Sequences, FiniteSets, TLC

\* ---------------------------------------------------------------- bounds
\* The map of the source is 32 x 32 (MAP_SIZE); the model uses a W x H map.
W == 3
H == 3
\* Number of mouse presses and of generations explored.
MaxClicks == 3
MaxGen == 2
\* Longest neighbour list explored by the stand-alone scan specification.
MaxScan == 4

\* ------------------------------------------------------ program constants
\* TickDuration(Stopwatch::default(), 0.1): the tick period, in ms.
Period == 100
CELL_SIZE == 16

\* const TEAM_COLORS: [Color; 4], indexed from 0 in the source
TEAM_COLORS == <<"WHITE", "YELLOW_GREEN", "BLUE", "ORANGE">>

MAP_SIZE == <<W, H>>

\* time.delta() values of a frame, in ms (inputs).
Deltas == {50, 250}

Teams == 0..3

Pos == (0..(MAP_SIZE[1] - 1)) \X (0..(MAP_SIZE[2] - 1))

\* Option::None of a position or of a tile
None == << >>

\* Cursor positions (inputs).  The window is MAP_SIZE * CELL_SIZE pixels.
\* Half == 8 is the first coordinate that rounds up to tile 1, Half - 1 the
\* last one that rounds to tile 0.  The positions inside the map are those of
\* the tiles (0,1), (1,1) and (2,1); the two outside are one tile past the
\* last column and the last row, still inside the window because the
\* coordinate is rounded to the nearest tile.
Half == CELL_SIZE \div 2

CursorsIn == {<<Half - 1, Half>>, <<Half, Half>>, <<CELL_SIZE + Half, Half>>}

CursorsOut == {<<CELL_SIZE * MAP_SIZE[1] - Half, Half - 1>>,
               <<Half - 1, CELL_SIZE * MAP_SIZE[2] - Half>>}

Cursors == CursorsIn \cup CursorsOut \cup {None}

VARIABLES
    elapsed,    \* ticker.0 elapsed time (Stopwatch), ms
    paused,     \* ticker.0 paused flag
    cell,       \* Cell component of every tile: [team, new_team]
    changed,    \* tiles whose Cell changed since update_map last ran
    delta,      \* time.delta() read by the last run of update_map
    gen,        \* number of generations update_map has run
    clicks,     \* number of presses whose cursor position was mapped to (x, y)
    agg,        \* (team, neighbors) computed for each tile in the last generation
    scan,       \* state of one neighbour scan (stand-alone scan specification)
    loop        \* position of update_map in its two loops (loop specification)

vars == <<elapsed, paused, cell, changed, delta, gen, clicks, agg, scan, loop>>

gridVars == <<elapsed, paused, cell, changed, delta, gen, clicks, agg, loop>>

\* ------------------------------------------------------------- stopwatch
\* variant of tick: the paused flag is not consulted
tick_unpaused(e, p, d) == e + d

\* Stopwatch::tick: elapsed grows only while not paused.
tick(e, p, d) == IF p THEN e ELSE e + d

\* variant of reset: one period is subtracted
reset_subtract(e) == e - Period

\* Stopwatch::reset: elapsed back to zero, paused flag kept.
reset(e) == 0

\* variant of due: the comparison is <= instead of <
due_strict(e) == ~(e <= Period)

\* the early return of update_map: no generation while elapsed < period
due(e) == ~(e < Period)

\* --------------------------------------------------------- neighbourhood
\* SQUARE_DIRECTIONS of bevy_ecs_tilemap: E, NE, N, NW, W, SW, S, SE.
Directions == << <<1, 0>>, <<1, 1>>, <<0, 1>>, <<-1, 1>>,
                 <<-1, 0>>, <<-1, -1>>, <<0, -1>>, <<1, -1>> >>

\* SquarePos::as_tile_pos: a position outside the map has no tile.
InMap(p) == /\ p[1] >= 0 /\ p[1] < MAP_SIZE[1]
            /\ p[2] >= 0 /\ p[2] < MAP_SIZE[2]

offset(p, d) == <<p[1] + d[1], p[2] + d[2]>>

\* variant of get_square_neighboring_positions: positions wrap around the map
wrapped_neighboring_positions(p) ==
    [i \in 1..Len(Directions) |->
        <<(p[1] + Directions[i][1] + MAP_SIZE[1]) % MAP_SIZE[1],
          (p[2] + Directions[i][2] + MAP_SIZE[2]) % MAP_SIZE[2]>>]

\* Neighbors::get_square_neighboring_positions(tile_pos, map_size, true)
\* followed by .entities(tile_storage).iter(): the neighbouring tiles that
\* exist, diagonals included, in direction order.
RECURSIVE neighbors_from(_, _)
neighbors_from(p, i) ==
    IF i > Len(Directions) THEN << >>
    ELSE LET q == offset(p, Directions[i])
         IN  (IF InMap(q) THEN <<q>> ELSE << >>) \o neighbors_from(p, i + 1)

get_square_neighboring_positions(p) == neighbors_from(p, 1)

\* ------------------------------------------------------------- team scan
\* .filter(|c| cell.0 != 0): only non-empty neighbours are scanned
nonempty(t) == t # 0

\* variant of scan_body: the loop is left once the team is "neither"
scan_body_break(acc, n) ==
    IF acc.team = 1 THEN acc
    ELSE [count |-> acc.count + 1,
          team  |-> IF acc.team = 0 THEN n
                    ELSE IF acc.team # n THEN 1
                    ELSE acc.team]

\* variant of scan_body: "neither" is taken for "no team yet"
scan_body_reseed(acc, n) ==
    [count |-> acc.count + 1,
     team  |-> IF acc.team <= 1 THEN n
               ELSE IF acc.team # n THEN 1
               ELSE acc.team]

\* variant of scan_body: the comparison of the teams is inverted
scan_body_eq(acc, n) ==
    [count |-> acc.count + 1,
     team  |-> IF acc.team = 0 THEN n
               ELSE IF acc.team = n THEN 1
               ELSE acc.team]

\* one iteration of `for neighbor in neighbors`
scan_body(acc, n) ==
    [count |-> acc.count + 1,
     team  |-> IF acc.team = 0 THEN n
               ELSE IF acc.team # n THEN 1
               ELSE acc.team]

scan_start == [team |-> 0, count |-> 0]

RECURSIVE scan_from(_, _, _)
scan_from(s, i, acc) ==
    IF i > Len(s) THEN acc
    ELSE scan_from(s, i + 1, IF nonempty(s[i]) THEN scan_body(acc, s[i]) ELSE acc)

\* the block computing (team, neighbors) from the neighbours' teams
scan_teams(s) == scan_from(s, 1, scan_start)

\* teams (cell.0) of the neighbouring tiles of p, in iteration order
neighbor_teams(cs, p) ==
    LET ns == get_square_neighboring_positions(p)
    IN  [i \in 1..Len(ns) |-> cs[ns[i]].team]

\* variant of rule: the && is grouped with the wrong operand
rule_grouped(c0, a) ==
    IF c0 # 0 /\ (a.count = 2 \/ a.count = 3) THEN a.team ELSE 0

\* ------------------------------------------------------------------ rule
\* if cell.0 != 0 && neighbors == 2 || neighbors == 3 { team } else { 0 }
rule(c0, a) ==
    IF (c0 # 0 /\ a.count = 2) \/ a.count = 3 THEN a.team ELSE 0

\* ------------------------------------------------------------ update_map
\* variant of commit: cell.1 is cleared before it is copied
commit_cleared(cs, ch) ==
    [p \in Pos |-> IF p \in ch
                   THEN [team |-> 0, new_team |-> 0]
                   ELSE cs[p]]

\* first loop: move cell.1 to cell.0 for every tile of changed_query
commit(cs, ch) ==
    [p \in Pos |-> IF p \in ch
                   THEN [team |-> cs[p].new_team, new_team |-> 0]
                   ELSE cs[p]]

\* (team, neighbors) of every tile of changed_query
aggregate(cs, ch) == [p \in ch |-> scan_teams(neighbor_teams(cs, p))]

\* second loop: write cell.1 for every tile of changed_query
evaluate(cs, ch) ==
    [p \in Pos |-> IF p \in ch
                   THEN [team |-> cs[p].team,
                         new_team |-> rule(cs[p].team, aggregate(cs, ch)[p])]
                   ELSE cs[p]]

update_map(d) ==
    /\ delta' = d
    /\ LET e == tick(elapsed, paused, d)
       IN  IF due(e)
           THEN /\ gen < MaxGen
                /\ elapsed' = reset(e)
                /\ cell' = evaluate(commit(cell, changed), changed)
                /\ agg' = aggregate(commit(cell, changed), changed)
                /\ gen' = gen + 1
           ELSE /\ elapsed' = e
                /\ UNCHANGED <<cell, agg, gen>>
    \* a system does not see its own changes, and a change is reported to
    \* the first run of the system that follows it
    /\ changed' = {}
    /\ UNCHANGED <<paused, clicks, scan, loop>>

\* ----------------------------------------------------------- mouse_input
\* (position / CELL_SIZE).round() as u32
round_div(px) == (2 * px + CELL_SIZE) \div (2 * CELL_SIZE)

\* variant of locate: the coordinate is truncated instead of rounded
locate_floor(cursor) ==
    LET x == cursor[1] \div CELL_SIZE
        y == cursor[2] \div CELL_SIZE
    IN  IF x >= MAP_SIZE[1] \/ y >= MAP_SIZE[2] THEN None ELSE <<x, y>>

\* the tile under the cursor, or None when it is outside the map
locate(cursor) ==
    LET x == round_div(cursor[1])
        y == round_div(cursor[2])
    IN  IF x >= MAP_SIZE[1] \/ y >= MAP_SIZE[2] THEN None ELSE <<x, y>>

\* variant of new_val: a click never clears a tile
new_val_no_clear(c0, ctrl) == IF ctrl THEN 2 ELSE 3

\* variant of new_val: the teams are numbered one too high
new_val_shifted(c0, ctrl) ==
    IF ctrl THEN (IF c0 = 3 THEN 0 ELSE 3)
            ELSE (IF c0 = 4 THEN 0 ELSE 4)

new_val(c0, ctrl) ==
    IF ctrl THEN (IF c0 = 2 THEN 0 ELSE 2)
            ELSE (IF c0 = 3 THEN 0 ELSE 3)

\* variant of mouse_input: only cell.0 is written
mouse_input_current_only(press, cursor, ctrl) ==
    /\ IF press /\ cursor # None
       THEN /\ clicks < MaxClicks
            /\ clicks' = clicks + 1
       ELSE UNCHANGED clicks
    /\ IF press /\ cursor # None /\ locate(cursor) # None
       THEN LET p == locate(cursor)
                v == new_val(cell[p].team, ctrl)
            IN  /\ cell' = [cell EXCEPT ![p].team = v]
                /\ changed' = changed \cup {p}
       ELSE UNCHANGED <<cell, changed>>
    /\ UNCHANGED <<elapsed, paused, delta, gen, agg, scan, loop>>

mouse_input(press, cursor, ctrl) ==
    /\ IF press /\ cursor # None
       THEN /\ clicks < MaxClicks
            /\ clicks' = clicks + 1
       ELSE UNCHANGED clicks
    /\ IF press /\ cursor # None /\ locate(cursor) # None
       THEN LET p == locate(cursor)
                v == new_val(cell[p].team, ctrl)
            IN  /\ cell' = [cell EXCEPT ![p] = [team |-> v, new_team |-> v]]
                /\ changed' = changed \cup {p}
       ELSE UNCHANGED <<cell, changed>>
    /\ UNCHANGED <<elapsed, paused, delta, gen, agg, scan, loop>>

\* variant of keyboard_input: unpausing also restarts the stopwatch
keyboard_input_restart(space) ==
    /\ paused' = IF space THEN ~paused ELSE paused
    /\ elapsed' = IF space /\ paused THEN 0 ELSE elapsed
    /\ UNCHANGED <<cell, changed, delta, gen, clicks, agg, scan, loop>>

\* -------------------------------------------------------- keyboard_input
keyboard_input(space) ==
    /\ paused' = IF space THEN ~paused ELSE paused
    /\ UNCHANGED <<elapsed, cell, changed, delta, gen, clicks, agg, scan, loop>>

\* ------------------------------------------------------- specification
\* startup: every tile gets Cell(0, 0); the components are newly added, so
\* they all count as changed for the first run of update_map.
startup ==
    /\ elapsed = 0
    /\ paused = FALSE
    /\ cell = [p \in Pos |-> [team |-> 0, new_team |-> 0]]
    /\ changed = Pos
    /\ gen = 0
    /\ clicks = 0
    /\ agg = << >>

scan_idle == [cell0 |-> 0, nbrs |-> << >>, i |-> 0, acc |-> scan_start,
              new_team |-> 0, pc |-> "idle"]

loop_idle == [pc |-> "idle", todo |-> {}, start |-> << >>]

Init ==
    /\ startup
    /\ delta = 0
    /\ scan = scan_idle
    /\ loop = loop_idle

Next ==
    \/ \E d \in Deltas : update_map(d)
    \/ \E press \in BOOLEAN, cursor \in Cursors, ctrl \in BOOLEAN :
           mouse_input(press, cursor, ctrl)
    \/ \E space \in BOOLEAN : keyboard_input(space)

Spec == Init /\ [][Next]_vars

\* ------------------------------------------- the scan of one tile, alone
\* The second loop's body for one tile, one neighbour at a time, on every
\* tile value and every list of neighbour teams of at most MaxScan entries.
ScanInputs == UNION {[1..n -> Teams] : n \in 0..MaxScan}

\* the filter rejects an empty neighbour
scan_skip ==
    /\ scan.pc = "scan"
    /\ scan.i < Len(scan.nbrs)
    /\ ~nonempty(scan.nbrs[scan.i + 1])
    /\ scan' = [scan EXCEPT !.i = scan.i + 1]
    /\ UNCHANGED gridVars

\* the loop body runs for a non-empty neighbour
scan_visit ==
    /\ scan.pc = "scan"
    /\ scan.i < Len(scan.nbrs)
    /\ nonempty(scan.nbrs[scan.i + 1])
    /\ scan' = [scan EXCEPT !.i = scan.i + 1,
                            !.acc = scan_body(scan.acc, scan.nbrs[scan.i + 1])]
    /\ UNCHANGED gridVars

\* after the last neighbour, cell.1 is written
scan_write ==
    /\ scan.pc = "scan"
    /\ scan.i = Len(scan.nbrs)
    /\ scan' = [scan EXCEPT !.new_team = rule(scan.cell0, scan.acc),
                            !.pc = "done"]
    /\ UNCHANGED gridVars

InitScan ==
    /\ startup
    /\ delta = 0
    /\ loop = loop_idle
    /\ \E c0 \in Teams, s \in ScanInputs :
           scan = [cell0 |-> c0, nbrs |-> s, i |-> 0, acc |-> scan_start,
                   new_team |-> 0, pc |-> "scan"]

NextScan == scan_skip \/ scan_visit \/ scan_write

SpecScan == InitScan /\ [][NextScan]_vars

\* ------------------------------------- the two loops, one tile at a time
\* One generation of update_map with the tiles of changed_query taken in any
\* order: the first loop runs to its end, then the second.

\* variant of evaluate_tile: the result is written to cell.0
evaluate_tile_in_place(cs, p) ==
    [cs EXCEPT ![p].team = rule(cs[p].team, scan_teams(neighbor_teams(cs, p)))]

\* body of the first loop for tile p
commit_tile(cs, p) ==
    [cs EXCEPT ![p] = [team |-> cs[p].new_team, new_team |-> 0]]

\* body of the second loop for tile p
evaluate_tile(cs, p) ==
    [cs EXCEPT ![p].new_team = rule(cs[p].team, scan_teams(neighbor_teams(cs, p)))]

\* Maps the generation starts from: the tiles (0,1), (1,1), (2,1) as clicks
\* leave them (cell.0 = cell.1), everything else empty.
ClickedTiles == {<<0, 1>>, <<1, 1>>, <<2, 1>>}

LoopGrids ==
    {[p \in Pos |-> IF p \in ClickedTiles
                    THEN [team |-> f[p], new_team |-> f[p]]
                    ELSE [team |-> 0, new_team |-> 0]] :
        f \in [ClickedTiles -> {0, 2, 3}]}

\* Tiles changed_query may report.
LoopTiles == {<<0, 1>>, <<1, 1>>, <<1, 0>>, <<1, 2>>}

commit_one ==
    /\ loop.pc = "commit"
    /\ \E p \in loop.todo :
           /\ cell' = commit_tile(cell, p)
           /\ loop' = [loop EXCEPT !.todo = loop.todo \ {p}]
    /\ UNCHANGED <<elapsed, paused, changed, delta, gen, clicks, agg, scan>>

\* the first loop is over: the second one starts on the same tiles
commit_end ==
    /\ loop.pc = "commit"
    /\ loop.todo = {}
    /\ loop' = [loop EXCEPT !.pc = "evaluate", !.todo = changed]
    /\ UNCHANGED <<elapsed, paused, cell, changed, delta, gen, clicks, agg, scan>>

evaluate_one ==
    /\ loop.pc = "evaluate"
    /\ \E p \in loop.todo :
           /\ cell' = evaluate_tile(cell, p)
           /\ loop' = [loop EXCEPT !.todo = loop.todo \ {p}]
    /\ UNCHANGED <<elapsed, paused, changed, delta, gen, clicks, agg, scan>>

evaluate_end ==
    /\ loop.pc = "evaluate"
    /\ loop.todo = {}
    /\ loop' = [loop EXCEPT !.pc = "done"]
    /\ UNCHANGED <<elapsed, paused, cell, changed, delta, gen, clicks, agg, scan>>

InitLoop ==
    /\ elapsed = 0
    /\ paused = FALSE
    /\ delta = 0
    /\ gen = 0
    /\ clicks = 0
    /\ agg = << >>
    /\ scan = scan_idle
    /\ cell \in LoopGrids
    /\ changed \in SUBSET LoopTiles
    /\ loop = [pc |-> "commit", todo |-> changed, start |-> cell]

NextLoop == commit_one \/ commit_end \/ evaluate_one \/ evaluate_end

SpecLoop == InitLoop /\ [][NextLoop]_vars

\* ================================================================ claims

\* ---- C1
\* C1 as stated: a run of update_map that finds the stopwatch running and
\* elapsed + delta >= period runs one generation and leaves
\* elapsed + delta - period in the stopwatch.
C1_Original ==
    [][\A d \in Deltas :
          (update_map(d) /\ ~paused /\ elapsed + d >= Period)
              => (gen' = gen + 1 /\ elapsed' = elapsed + d - Period)]_vars

\* C1 amended: such a run runs one generation and leaves zero in the
\* stopwatch, whatever the time above one period was.
C1_Reset ==
    [][\A d \in Deltas :
          (update_map(d) /\ ~paused /\ elapsed + d >= Period)
              => (gen' = gen + 1 /\ elapsed' = 0)]_vars

\* the first run of update_map got delta = 250 ms with the stopwatch at 0
C1_Witness ==
    /\ gen = 1 /\ delta = 250 /\ elapsed = 0 /\ ~paused
    /\ clicks = 0 /\ changed = {}

\* ---- C2
\* C2: every step of the program runs at most one generation, and a run of
\* update_map runs one exactly when the stopwatch is running and
\* elapsed + delta >= period; otherwise the tiles are left alone.
C2_AtMostOneStep ==
    [][/\ gen' \in {gen, gen + 1}
       /\ \A d \in Deltas :
              update_map(d) =>
                  /\ (gen' = gen + 1) <=> (~paused /\ elapsed + d >= Period)
                  /\ (gen' = gen) => (cell' = cell /\ agg' = agg)]_vars

\* one generation has run although the last delta was 2.5 periods
C2_Witness == gen = 1 /\ delta = 250 /\ DOMAIN agg = Pos /\ clicks > 0

\* ---- C3
\* C3: from a paused state no step changes elapsed or runs a generation, a
\* run of update_map leaves the tiles alone there (so the value is still the
\* saved one when the stopwatch is unpaused), and a generation only runs
\* with the stopwatch running and elapsed + delta >= period.
C3_PausedFrozen ==
    [][/\ paused => (elapsed' = elapsed /\ gen' = gen)
       /\ \A d \in Deltas :
              update_map(d) =>
                  /\ paused => cell' = cell
                  /\ (gen' # gen) => (~paused /\ elapsed + d >= Period)
                  /\ (~paused /\ elapsed + d < Period) => elapsed' = elapsed + d]_vars

\* update_map ran with delta = 250 ms while paused: elapsed kept its 50 ms
C3_Witness == paused /\ delta = 250 /\ elapsed = 50 /\ gen = 0

\* ---- C4
\* C4: a step that changes the paused flag changes nothing else of the
\* stopwatch or of the tiles, so two of them in a row restore the state.
C4_ToggleOnlyFlag ==
    [][(paused' # paused) =>
          /\ elapsed' = elapsed
          /\ cell' = cell
          /\ changed' = changed
          /\ gen' = gen]_vars

\* paused with a non-zero stopwatch and a non-empty map
C4_Witness ==
    /\ paused /\ elapsed = 50
    /\ \E p \in Pos : cell[p].team # 0

\* ---- C5
\* C5: the value written to cell.1 is the scanned team when (the tile is not
\* empty and exactly 2 neighbours are alive) or exactly 3 are, and 0 in
\* every other case; nothing else of the tile enters.
C5_TeamRule ==
    scan.pc = "done" =>
        scan.new_team =
            IF \/ scan.cell0 # 0 /\ scan.acc.count = 2
               \/ scan.acc.count = 3
            THEN scan.acc.team
            ELSE 0

\* an empty tile with three live neighbours of two teams becomes "neither"
C5_Witness ==
    /\ scan.pc = "done" /\ scan.cell0 = 0
    /\ scan.acc.count = 3 /\ scan.new_team = 1

\* ---- C6
\* the non-empty teams among the neighbours scanned so far, in order
Visited == SelectSeq(SubSeq(scan.nbrs, 1, scan.i), LAMBDA t : t # 0)

\* C6: at every point of the scan the count is the number of non-empty
\* neighbours seen, and the team is 0 before the first of them, the team
\* of the first while all of them agree with it, and 1 (neither) from the
\* first disagreement to the end of the scan; so 2,2,3 gives 1 and 2,2,2
\* gives 2.
C6_TeamVote ==
    /\ scan.acc.count = Len(Visited)
    /\ scan.acc.team =
           IF Len(Visited) = 0 THEN 0
           ELSE IF \A k \in 1..Len(Visited) : Visited[k] = Visited[1]
                THEN Visited[1]
                ELSE 1
    /\ (scan.nbrs = <<2, 2, 3>> /\ scan.i = 3) => scan.acc = [team |-> 1, count |-> 3]
    /\ (scan.nbrs = <<2, 2, 2>> /\ scan.i = 3) => scan.acc = [team |-> 2, count |-> 3]

\* teams 2, 3, 2 scanned: the vote stayed "neither" and all three counted
C6_Witness ==
    /\ scan.nbrs = <<2, 3, 0, 2>> /\ scan.i = 4
    /\ scan.acc = [team |-> 1, count |-> 3]

\* ---- C7
Offsets8 == {d \in {-1, 0, 1} \X {-1, 0, 1} : d # <<0, 0>>}

\* C7 as stated: the count computed for a tile is the number of non-empty
\* tiles among the 8 at ((x+dx) mod width, (y+dy) mod height).
C7_Original ==
    [][gen' = gen + 1 =>
          \A p \in DOMAIN agg' :
              agg'[p].count =
                  Cardinality({d \in Offsets8 :
                      cell'[<<(p[1] + d[1] + W) % W, (p[2] + d[2] + H) % H>>].team # 0})]_vars

\* C7 amended: the count is the number of non-empty tiles among those of the
\* 8 positions (x+dx, y+dy) that lie on the map; nothing wraps around.
C7_Bounded ==
    [][gen' = gen + 1 =>
          \A p \in DOMAIN agg' :
              agg'[p].count =
                  Cardinality({d \in Offsets8 :
                      /\ p[1] + d[1] \in 0..(W - 1)
                      /\ p[2] + d[2] \in 0..(H - 1)
                      /\ cell'[<<p[1] + d[1], p[2] + d[2]>>].team # 0})]_vars

\* tile (W-1, 1) on the last column was evaluated while (0, 1) was alive
\* and got a count of 0
C7_Witness ==
    /\ gen = 1
    /\ <<W - 1, 1>> \in DOMAIN agg
    /\ agg[<<W - 1, 1>>].count = 0
    /\ cell[<<0, 1>>].team # 0
    /\ clicks = 1

\* ---- C8
BlinkerH == {<<0, 1>>, <<1, 1>>, <<2, 1>>}
BlinkerV == {<<1, 0>>, <<1, 1>>, <<1, 2>>}

\* the three tiles of a horizontal blinker were clicked for team t and no
\* other tile is alive
Placed(t) ==
    \A p \in Pos :
        cell[p] = IF p \in BlinkerH THEN [team |-> t, new_team |-> t]
                  ELSE [team |-> 0, new_team |-> 0]

\* C8 as stated, its first half: one generation after a horizontal blinker
\* was placed by clicks, cell.0 shows the vertical blinker.
C8_Original ==
    [][\A t \in {2, 3} :
          (Placed(t) /\ gen' = gen + 1) =>
              \A p \in Pos : (cell'[p].team # 0) <=> (p \in BlinkerV)]_vars

\* ---- C9
\* px / CELL_SIZE rounded to the nearest integer, halves away from zero
Nearest(px) ==
    CHOOSE k \in 0..(px \div CELL_SIZE + 1) :
        2 * CELL_SIZE * k - CELL_SIZE <= 2 * px /\ 2 * px < 2 * CELL_SIZE * k + CELL_SIZE

\* C9: a press over a tile of the map sets its cell.0 to 2 with the modifier
\* and to 3 without it, or to 0 when cell.0 was that value already; no
\* generation runs and no other tile changes.
C9_Click ==
    [][\A c \in CursorsIn, ctrl \in BOOLEAN :
          mouse_input(TRUE, c, ctrl) =>
              LET p == <<Nearest(c[1]), Nearest(c[2])>>
              IN  /\ cell'[p].team =
                         IF ctrl THEN (IF cell[p].team = 2 THEN 0 ELSE 2)
                                 ELSE (IF cell[p].team = 3 THEN 0 ELSE 3)
                  /\ cell'[p].team # cell[p].team
                  /\ \A q \in Pos \ {p} : cell'[q] = cell[q]
                  /\ gen' = gen /\ agg' = agg]_vars

\* after update_map ran once without a generation, a tile was clicked
\* twice for the same team: it is reported as changed and is empty again
C9_Witness ==
    /\ gen = 0 /\ delta = 50 /\ clicks = 2
    /\ \E p \in changed : cell[p].team = 0
    /\ \A p \in Pos : cell[p].team = 0

\* ---- C10
\* C10: a press whose position rounds to x >= width or y >= height changes
\* no tile, and neither the stopwatch nor the set of changed tiles.
C10_OutOfBounds ==
    [][\A c \in Cursors \ {None}, ctrl \in BOOLEAN :
          (mouse_input(TRUE, c, ctrl) /\ (Nearest(c[1]) >= W \/ Nearest(c[2]) >= H))
              => /\ cell' = cell
                 /\ elapsed' = elapsed
                 /\ paused' = paused
                 /\ changed' = changed
                 /\ gen' = gen]_vars

\* after update_map ran once, a press was handled and no tile changed:
\* its position was outside the map
C10_Witness ==
    /\ clicks = 1 /\ changed = {} /\ delta = 50 /\ gen = 0
    /\ \A p \in Pos : cell[p] = [team |-> 0, new_team |-> 0]

\* ---- C11
\* number of non-empty tiles of cs next to p on the map
AliveAround(cs, p) ==
    Cardinality({d \in Offsets8 :
        /\ p[1] + d[1] \in 0..(W - 1)
        /\ p[2] + d[2] \in 0..(H - 1)
        /\ cs[<<p[1] + d[1], p[2] + d[2]>>].team # 0})

\* C11: a generation keeps in cell.0 of every tile the value it held when
\* the generation began (the value of the last click on it) and counts the
\* neighbours on those values; a press changes no other tile, nor what
\* the last generation computed, and runs no generation.
C11_ClickStepOrder ==
    [][/\ gen' = gen + 1 =>
              /\ \A p \in Pos : cell'[p].team = cell[p].team
              /\ \A p \in DOMAIN agg' : agg'[p].count = AliveAround(cell, p)
       /\ \A c \in CursorsIn, ctrl \in BOOLEAN :
              mouse_input(TRUE, c, ctrl) =>
                  /\ \A q \in Pos \ {<<Nearest(c[1]), Nearest(c[2])>>} :
                         cell'[q] = cell[q]
                  /\ agg' = agg
                  /\ gen' = gen]_vars

\* (0,1) was clicked, then a generation ran: (0,1) still holds the clicked
\* team and its neighbour (1,1) counted it
C11_Witness ==
    /\ gen = 1 /\ clicks = 1
    /\ cell[<<0, 1>>].team = 3
    /\ <<1, 1>> \in DOMAIN agg
    /\ agg[<<1, 1>>] = [team |-> 3, count |-> 1]

\* ---- C12
\* C12 as stated: a press over a tile leaves cell.1 of every tile, the
\* clicked one included, as it was.
C12_Original ==
    [][\A c \in CursorsIn, ctrl \in BOOLEAN :
          mouse_input(TRUE, c, ctrl) =>
              \A q \in Pos : cell'[q].new_team = cell[q].new_team]_vars

\* C12 amended: a press over a tile writes the new value to cell.0 and to
\* cell.1 of that tile, and leaves cell.1 of every other tile as it was.
C12_WritesBoth ==
    [][\A c \in CursorsIn, ctrl \in BOOLEAN :
          mouse_input(TRUE, c, ctrl) =>
              LET p == <<Nearest(c[1]), Nearest(c[2])>>
              IN  /\ cell'[p].new_team = cell'[p].team
                  /\ cell'[p].team # cell[p].team
                  /\ \A q \in Pos \ {p} : cell'[q].new_team = cell[q].new_team]_vars

\* after a generation left cell.1 of (1,1) at 0, a click wrote 3 to both
C12_Witness ==
    /\ gen = 1 /\ changed = {<<1, 1>>}
    /\ cell[<<1, 1>>] = [team |-> 3, new_team |-> 3]
    /\ <<1, 1>> \in DOMAIN agg

\* ---- C13
\* birth or survival on an occupancy and a count of live neighbours
B3S23(alive, n) == (alive /\ n = 2) \/ n = 3

\* C13 as stated: after a generation every tile of the map has in cell.0 the
\* value its cell.1 held before, and in cell.1 the rule applied to that
\* cell.0 and to the neighbours' new cell.0 values.
C13_Original ==
    [][gen' = gen + 1 =>
          \A p \in Pos :
              /\ cell'[p].team = cell[p].new_team
              /\ cell'[p].new_team =
                     IF B3S23(cell'[p].team # 0, AliveAround(cell', p))
                     THEN scan_teams(neighbor_teams(cell', p)).team
                     ELSE 0]_vars

\* ---- C14
\* C14: while the second loop runs cell.0 of every tile stays what the
\* first loop left, and whatever the order of the tiles in the two loops,
\* the map at the end is the one both loops give when each is applied to
\* all its tiles at once.
C14_OrderIndependent ==
    /\ loop.pc \in {"evaluate", "done"} =>
           \A p \in Pos : cell[p].team = commit(loop.start, changed)[p].team
    /\ loop.pc = "done" =>
           cell = evaluate(commit(loop.start, changed), changed)

\* a generation over four tiles ended with a birth above the row: the
\* second loop saw all three clicked tiles whatever its order
C14_Witness ==
    /\ loop.pc = "done"
    /\ changed = LoopTiles
    /\ cell[<<1, 2>>].new_team = 1
    /\ cell[<<1, 1>>].team # 0

\* ---- C15
\* C15 as stated: when the second loop of a generation begins, cell.1 of
\* every tile of the map is 0.
C15_Original ==
    [][gen' = gen + 1 =>
          \A p \in Pos : commit(cell, changed)[p].new_team = 0]_vars

\* ---- C16
\* the rule alone: what is written is non-empty exactly on birth or survival
C16_RuleOccupancy ==
    scan.pc = "done" =>
        (scan.new_team # 0 <=> B3S23(scan.cell0 # 0, scan.acc.count))

\* C16 as stated, for a generation of the map: cell.1 of every tile is
\* non-empty afterwards exactly when the tile's cell.0 and the number of
\* its non-empty neighbours give birth or survival.
C16_Original ==
    [][gen' = gen + 1 =>
          \A p \in Pos :
              (cell'[p].new_team # 0) <=>
                  B3S23(cell'[p].team # 0, AliveAround(cell', p))]_vars

\* ---- C17
\* the teams of s that are not empty
TeamsIn(s) == {s[i] : i \in 1..Len(s)} \ {0}

\* the vote as a function of the set of teams around the tile
Vote(s) ==
    IF TeamsIn(s) = {} THEN 0
    ELSE IF Cardinality(TeamsIn(s)) = 1 THEN CHOOSE t \in TeamsIn(s) : TRUE
    ELSE 1

\* C17: whatever the order in which the neighbours are scanned, the team
\* computed is 0 when no neighbour is non-empty, the common team when all
\* non-empty neighbours have the same team, and 1 (neither) when two of
\* them differ; checked for every list of neighbour teams of at most
\* MaxScan entries and every permutation of it.
C17_VoteOrder ==
    scan.pc = "done" =>
        /\ scan.acc.team = Vote(scan.nbrs)
        /\ \A f \in Permutations(1..Len(scan.nbrs)) :
               scan_teams([i \in 1..Len(scan.nbrs) |-> scan.nbrs[f[i]]]).team
                   = Vote(scan.nbrs)

\* a scan of teams 3, 2, 2 has ended with "neither"
C17_Witness ==
    /\ scan.pc = "done"
    /\ scan.nbrs = <<3, 0, 2, 2>>
    /\ scan.acc.team = 1

\* ---- C18
\* every cell.0 and cell.1 of the map is empty or team T
Mono(T) == \A p \in Pos : cell[p].team \in {0, T} /\ cell[p].new_team \in {0, T}

\* a click that assigns the team other than T (2 with ctrl, 3 without)
OtherClick(T) ==
    \E cursor \in CursorsIn : mouse_input(TRUE, cursor, T = 3)

\* C18: when every cell.0 and cell.1 is empty or one team T (2 or 3), any
\* step of the program other than a click for the other team leaves every
\* cell.0 and cell.1 empty or T: no 1 (neither) and no other team appears.
C18_SingleTeam ==
    [][\A T \in {2, 3} : (Mono(T) /\ ~OtherClick(T)) => Mono(T)']_vars

\* a tile was born with team 3 in a generation of a map holding team 3 only
C18_Witness ==
    /\ gen = 1
    /\ Mono(3)
    /\ cell[<<1, 0>>] = [team |-> 0, new_team |-> 3]
    /\ cell[<<1, 1>>].team = 3

\* ---- C19
\* C19: in every reachable state cell.0 and cell.1 of every tile are in
\* 0..3, so TEAM_COLORS[cell.0] and TEAM_COLORS[cell.1] are elements of the
\* four-colour array (indexed from 1 here).
C19_StateRange ==
    \A p \in Pos :
        /\ cell[p].team \in 0..3
        /\ cell[p].new_team \in 0..3
        /\ cell[p].team + 1 \in DOMAIN TEAM_COLORS
        /\ cell[p].new_team + 1 \in DOMAIN TEAM_COLORS

\* a generation wrote 1 (neither) and a click wrote 2 and 3
C19_Witness ==
    /\ cell[<<1, 0>>].new_team = 1
    /\ cell[<<1, 1>>].team = 2
    /\ cell[<<0, 1>>].team = 3

====
